---- MODULE Spec2Model ----
(***************************************************************************)
(* A model of puff's routing tree: route registration (Router.Get/Post/    *)
(* Put/Patch/Delete -> registerRoute), subtree composition (Router.Mount)  *)
(* and request dispatch (Router.ServeHTTP), as one atomic call and as      *)
(* calls that run side by side one step at a time; and of what the         *)
(* application derives from the routers: full paths (Route.FullPath),      *)
(* patched routes (patchAllRoutes) and documentation paths                 *)
(* (GenerateOpenAPISpec).                                                  *)
(*                                                                         *)
(* Go strings are modelled as sequences of one-character strings, so that  *)
(* trimming, splitting, prefix tests and concatenation are computed and    *)
(* not assumed.  Pointers are indexes into an arena: a *node is an index   *)
(* into nodes, a *Route an index into routes, a *Router a key of routers;  *)
(* nil is 0.  A panic ends the program: the state keeps whatever the       *)
(* aborted call had already written and no further call is made.           *)
(***************************************************************************)
EXTENDS Integers, Sequences, FiniteSets, TLC

VARIABLES
    nodes,      \* arena of node structs (src/node.go)
    routes,     \* arena of Route structs, in creation order
    routers,    \* Router structs, by router id
    panicked,   \* value of the panic that aborted the program, or NoPanic
    response,   \* what the latest step wrote to its http.ResponseWriter
    inflight,   \* the ServeHTTP calls that run one step at a time
    openAPI     \* the application's Config.OpenAPI: the documentation generated

vars == <<nodes, routes, routers, panicked, response, inflight, openAPI>>

nil == 0

\* nodeType (src/node.go)
nodePrefix == 0
nodePathParam == 1
nodeAny == 2

\* net/http method names used by Get/Post/Put/Patch/Delete
MethodGet == "GET"
MethodPost == "POST"
MethodPut == "PUT"
MethodPatch == "PATCH"
MethodDelete == "DELETE"

\* net/http status codes written by ServeHTTP
StatusOK == 200
StatusBadRequest == 400
StatusNotFound == 404
StatusMethodNotAllowed == 405

\* panic values
NoPanic == ""
PanicSillyGoose == "u are being a silly goose"
PanicInvalidMountPath == "mountPath is invalid"
PanicAlreadyAttached == "provided router is already attached"
PanicMethodConflict == "cannot add route due to method conflict"
PanicImproperRoute == "Improperly formatted route"
PanicEmptyPrefix == "prefix cannot be empty when adding a child node"
PanicChildExists == "child with prefix already exists"
PanicIndexOutOfRange == "runtime error: index out of range"
PanicNilMap == "assignment to entry in nil map"
PanicNilPointer == "runtime error: invalid memory address or nil pointer dereference"
PanicNilSubRouter == "subRouter is nil. Cannot attach nil router"
PanicInputSchema == "error with Input Schema for route"

\* the ends of a call that is not a panic: a loop that is never left, and
\* the runtime ending the program when a recursion without end fills the stack
NeverReturns == "the call does not return"
FatalStackOverflow == "fatal error: stack overflow"

\* the panics raised by an explicit panic(...) of the router or the node
ConfigurationErrors ==
    {PanicSillyGoose, PanicInvalidMountPath, PanicAlreadyAttached,
     PanicMethodConflict, PanicImproperRoute, PanicEmptyPrefix, PanicChildExists,
     PanicNilSubRouter, PanicInputSchema}

(***************************************************************************)
(* Strings                                                                 *)
(***************************************************************************)
\* the elements of a list, as a set
Range(list) == {list[i] : i \in 1..Len(list)}

Min(S) == CHOOSE x \in S : \A y \in S : x <= y

\* strings.HasPrefix
HasPrefix(s, p) == Len(p) <= Len(s) /\ SubSeq(s, 1, Len(p)) = p

RECURSIVE TrimLeft(_, _)
TrimLeft(s, c) ==
    IF Len(s) > 0 /\ s[1] = c THEN TrimLeft(Tail(s), c) ELSE s

RECURSIVE TrimRight(_, _)
TrimRight(s, c) ==
    IF Len(s) > 0 /\ s[Len(s)] = c THEN TrimRight(SubSeq(s, 1, Len(s) - 1), c) ELSE s

\* strings.Trim(s, c) for a one-character cutset
Trim(s, c) == TrimRight(TrimLeft(s, c), c)

\* strings.Split(s, c) for a one-character separator: every token is kept,
\* the empty ones included
RECURSIVE Split(_, _)
Split(s, c) ==
    LET at == {i \in 1..Len(s) : s[i] = c}
    IN  IF at = {} THEN <<s>>
        ELSE <<SubSeq(s, 1, Min(at) - 1)>> \o Split(SubSeq(s, Min(at) + 1, Len(s)), c)

segmentPath(path) ==
    LET trimmed == Trim(path, "/")
    IN  IF Len(trimmed) = 0 THEN <<>> ELSE Split(trimmed, "/")

(***************************************************************************)
(* Nodes                                                                   *)
(***************************************************************************)
isParam(prefix) ==
    IF Len(prefix) = 0 THEN FALSE
    ELSE prefix[1] = "{" /\ prefix[Len(prefix)] = "}"

determineNodeType(prefix) ==
    IF Len(prefix) > 0 /\ prefix[1] = "*" THEN nodeAny
    ELSE IF isParam(prefix) THEN nodePathParam
    ELSE nodePrefix

\* a Go map[string]*Route: a function from the bound methods to routes.
\* A nil map reads as the empty map; routesNil tells the two apart.
EmptyMap == [m \in {} |-> nil]

MapSet(map, key, value) ==
    [m \in (DOMAIN map) \cup {key} |-> IF m = key THEN value ELSE map[m]]

\* the node struct; param is never written or read by the router
NodeStruct(prefix, parent, type_) ==
    [prefix |-> prefix, routes |-> EmptyMap, routesNil |-> TRUE,
     allMethods |-> <<>>, parent |-> parent, children |-> <<>>, type_ |-> type_]

\* newNode(prefix, parent): a node with that prefix and parent, no children
\* and no routes
newNode(prefix, parent) == NodeStruct(prefix, parent, determineNodeType(prefix))

\* n.isMethodTaken(method, path): the node's method map binds the method
isMethodTaken(n, method, path) == method \in DOMAIN n.routes

\* n.findChild(segment, nodeType): first child with that prefix and that type
findChild(ns, n, segment, nodeType) ==
    LET cs == ns[n].children
        hits == {i \in 1..Len(cs) :
                    ns[cs[i]].prefix = segment /\ ns[cs[i]].type_ = nodeType}
    IN  IF hits = {} THEN nil ELSE cs[Min(hits)]

\* n.addChild(prefix): the arena after the call, the new child, the panic
addChild(ns, n, prefix) ==
    IF Len(prefix) = 0 THEN [nodes |-> ns, node |-> nil, panic |-> PanicEmptyPrefix]
    ELSE IF n = nil THEN [nodes |-> ns, node |-> nil, panic |-> PanicNilPointer]
    ELSE IF \E i \in 1..Len(ns[n].children) : ns[ns[n].children[i]].prefix = prefix
         THEN [nodes |-> ns, node |-> nil, panic |-> PanicChildExists]
    ELSE LET id == Len(ns) + 1
         IN  [nodes |-> Append([ns EXCEPT ![n].children = Append(@, id)],
                               NodeStruct(prefix, n, determineNodeType(prefix))),
              node |-> id, panic |-> NoPanic]

\* the loop of insertNode over segments[1:]; a panic of addChild ends it
RECURSIVE insertChain(_, _, _)
insertChain(ns, current, segments) ==
    IF Len(segments) = 0 THEN [nodes |-> ns, panic |-> NoPanic]
    ELSE LET added == addChild(ns, current, Head(segments))
         IN  IF added.panic # NoPanic THEN [nodes |-> ns, panic |-> added.panic]
             ELSE insertChain(added.nodes, added.node, Tail(segments))

\* insertNode(p): the arena after the call, the node returned and the panic;
\* when it panics no node is returned and the nodes it made are unreachable
insertNode(ns, p) ==
    LET segments == segmentPath(p)
    IN  IF Len(segments) = 0 THEN [nodes |-> ns, node |-> nil, panic |-> NoPanic]
        ELSE LET id == Len(ns) + 1
                 withRoot == Append(ns, NodeStruct(segments[1], nil, nodePrefix))
                 chained == insertChain(withRoot, id, Tail(segments))
             IN  IF chained.panic # NoPanic
                 THEN [nodes |-> ns, node |-> nil, panic |-> chained.panic]
                 ELSE [nodes |-> chained.nodes, node |-> id, panic |-> NoPanic]

(***************************************************************************)
(* Router construction and registration                                    *)
(***************************************************************************)
\* the configuration state threaded through a call
Config(ns, rts, rtrs) == [nodes |-> ns, routes |-> rts, routers |-> rtrs, panic |-> NoPanic]

Abort(S, value) == [S EXCEPT !.panic = value]

\* the application a router's puff field points to; nil when it points to none
ThePuffApp == 1

\* NewRouter(name): the router struct, the arena holding its root node and
\* the panic of insertNode.  Prefix, the field generateCompletePath reads,
\* parent and puff are left at the zero value
NewRouter(ns, name) ==
    LET root == insertNode(ns, name)
    IN  [nodes |-> root.nodes,
         router |-> [Name |-> name, Path |-> <<>>, Prefix |-> <<>>, parent |-> nil,
                     puff |-> nil,
                     rootNode |-> root.node, Routes |-> <<>>, Routers |-> <<>>,
                     Middlewares |-> <<>>],
         panic |-> root.panic]

\* NewRouter(name, prefix), the constructor that takes a prefix: a Router
\* literal with the name and the prefix.  No node is made, nothing can panic
NewRouterPrefix(name, prefix) ==
    [Name |-> name, Path |-> <<>>, Prefix |-> prefix, parent |-> nil, puff |-> nil,
     rootNode |-> nil, Routes |-> <<>>, Routers |-> <<>>, Middlewares |-> <<>>]

\* a Route holds its Path, Protocol, Router and WebSocket flag, the cached
\* fullPath ("" until computed) and whether patchRoutes went over it.  Handler
\* is the function called for a request: the middlewares wrapped around the
\* registered handler, outermost first, which is the order they are entered
\* in when each does its work and then calls next
addRouteToNode(S, node, r, method, path) ==
    IF node = nil THEN Abort(S, PanicNilPointer)
    ELSE IF isMethodTaken(S.nodes[node], method, path) THEN Abort(S, PanicMethodConflict)
    ELSE LET newRoute == Len(S.routes) + 1
         IN  [nodes |-> [S.nodes EXCEPT ![node].routes = MapSet(@, method, newRoute),
                                        ![node].routesNil = FALSE,
                                        ![node].allMethods = Append(@, method)],
              routes |-> Append(S.routes, [Path |-> path, Protocol |-> method, Router |-> r,
                                           WebSocket |-> FALSE, Handler |-> <<>>,
                                           fullPath |-> <<>>, patched |-> FALSE]),
              routers |-> [S.routers EXCEPT ![r].Routes = Append(@, newRoute)],
              panic |-> NoPanic]

\* the segment loop of registerRoute: find or add one child per segment
RECURSIVE registerWalk(_, _, _)
registerWalk(ns, current, segments) ==
    IF Len(segments) = 0 THEN [nodes |-> ns, node |-> current, panic |-> NoPanic]
    ELSE IF current = nil THEN [nodes |-> ns, node |-> nil, panic |-> PanicNilPointer]
    ELSE LET segment == Head(segments)
             segment_w_slash == <<"/">> \o segment
             child == findChild(ns, current, segment_w_slash, determineNodeType(segment))
         IN  IF child # nil THEN registerWalk(ns, child, Tail(segments))
             ELSE LET added == addChild(ns, current, segment_w_slash)
                  IN  IF added.panic # NoPanic
                      THEN [nodes |-> ns, node |-> nil, panic |-> added.panic]
                      ELSE registerWalk(added.nodes, added.node, Tail(segments))

registerRoute(S, r, method, path) ==
    LET segments == segmentPath(path)
        root == S.routers[r].rootNode
    IN  IF (Len(path) = 0 \/ path[1] # "/") /\ Len(segments) < 2
        THEN IF root = nil THEN Abort(S, PanicNilPointer)
             ELSE IF Len(path) = 0 /\ ~isMethodTaken(S.nodes[root], method, path)
             THEN addRouteToNode(S, root, r, method, path)
             ELSE LET child == findChild(S.nodes, root, path, determineNodeType(path))
                  IN  IF child = nil
                      THEN LET added == addChild(S.nodes, root, path)
                           IN  IF added.panic # NoPanic THEN Abort(S, added.panic)
                               ELSE addRouteToNode([S EXCEPT !.nodes = added.nodes],
                                                   added.node, r, method, path)
                      ELSE addRouteToNode(S, root, r, method, path)
        ELSE IF path[1] # "/" /\ Len(segments) > 0 THEN Abort(S, PanicImproperRoute)
        ELSE LET walked == registerWalk(S.nodes, root, segments)
             IN  IF walked.panic # NoPanic
                 THEN Abort([S EXCEPT !.nodes = walked.nodes], walked.panic)
                 ELSE addRouteToNode([S EXCEPT !.nodes = walked.nodes],
                                     walked.node, r, method, path)

(***************************************************************************)
(* Mount                                                                   *)
(***************************************************************************)
\* the segment loop of Mount: descend into the first child with the same
\* prefix, or append a new node
RECURSIVE mountWalk(_, _, _)
mountWalk(ns, current, segments) ==
    IF Len(segments) = 0 THEN [nodes |-> ns, node |-> current, panic |-> NoPanic]
    ELSE IF current = nil THEN [nodes |-> ns, node |-> nil, panic |-> PanicNilPointer]
    ELSE LET segment_w_slash == <<"/">> \o Head(segments)
             cs == ns[current].children
             hits == {i \in 1..Len(cs) : ns[cs[i]].prefix = segment_w_slash}
         IN  IF hits # {} THEN mountWalk(ns, cs[Min(hits)], Tail(segments))
             ELSE LET id == Len(ns) + 1
                  IN  mountWalk(Append([ns EXCEPT ![current].children = Append(@, id)],
                                       newNode(segment_w_slash, current)),
                                id, Tail(segments))

\* the loop that hands subRouter's root children to the mount point
moveChildren(ns, current, moved) ==
    LET reparented == [i \in 1..Len(ns) |->
                          IF \E k \in 1..Len(moved) : moved[k] = i
                          THEN [ns[i] EXCEPT !.parent = current] ELSE ns[i]]
    IN  [reparented EXCEPT ![current].children = @ \o moved]

\* maps.Copy(dst, src)
mapsCopy(dst, src) ==
    [m \in (DOMAIN dst) \cup (DOMAIN src) |-> IF m \in DOMAIN src THEN src[m] ELSE dst[m]]

\* Mount once its arguments are accepted: attach subRouter, find or make the
\* mount point, hand over the children, merge the method maps
mountAttach(S, r, mountPath, subRouter) ==
    LET attached == [S EXCEPT !.routers[subRouter].Path = mountPath,
                              !.routers[subRouter].parent = r,
                              !.routers[subRouter].puff = S.routers[r].puff]
        segments == segmentPath(mountPath)
        subRoot == S.routers[subRouter].rootNode
    IN  IF Len(segments) = 0 THEN Abort(attached, PanicIndexOutOfRange)
        ELSE IF subRoot = nil THEN Abort(attached, PanicNilPointer)
        ELSE
        LET renamed == [attached.nodes EXCEPT ![subRoot].prefix = segments[1]]
            walked == mountWalk(renamed, S.routers[r].rootNode, segments)
        IN  IF walked.panic # NoPanic
            THEN Abort([attached EXCEPT !.nodes = walked.nodes], walked.panic)
            ELSE
            LET current == walked.node
                moved == moveChildren(walked.nodes, current, walked.nodes[subRoot].children)
                src == moved[subRoot]
            IN  IF DOMAIN src.routes # {} /\ moved[current].routesNil
                THEN Abort([attached EXCEPT !.nodes = moved], PanicNilMap)
                ELSE [attached EXCEPT
                        !.nodes = [moved EXCEPT
                            ![current].routes = mapsCopy(@, src.routes),
                            ![current].allMethods = @ \o src.allMethods],
                        !.routers[r].Routers = Append(@, subRouter)]

\* Mount without the check that subRouter has no parent yet
RouterMount_Reattach(S, r, mountPath, subRouter) ==
    IF r = subRouter THEN Abort(S, PanicSillyGoose)
    ELSE IF subRouter = nil THEN Abort(S, PanicNilSubRouter)
    ELSE IF Len(mountPath) = 0 \/ mountPath[1] # "/" THEN Abort(S, PanicInvalidMountPath)
    ELSE mountAttach(S, r, mountPath, subRouter)

\* Router.Mount: the configuration the call leaves, with its panic if it
\* aborted
RouterMount(S, r, mountPath, subRouter) ==
    IF r = subRouter THEN Abort(S, PanicSillyGoose)
    ELSE IF subRouter = nil THEN Abort(S, PanicNilSubRouter)
    ELSE IF Len(mountPath) = 0 \/ mountPath[1] # "/" THEN Abort(S, PanicInvalidMountPath)
    ELSE IF S.routers[subRouter].parent # nil THEN Abort(S, PanicAlreadyAttached)
    ELSE mountAttach(S, r, mountPath, subRouter)

\* Router.IncludeRouter(rt): rt is attached under r unless it has a parent,
\* and is given r's application; no mount path is recorded and no node is
\* touched
RouterIncludeRouter(S, r, rt) ==
    IF rt = nil THEN Abort(S, PanicNilPointer)
    ELSE IF S.routers[rt].parent # nil THEN Abort(S, PanicAlreadyAttached)
    ELSE [S EXCEPT !.routers[rt].parent = r,
                   !.routers[rt].puff = S.routers[r].puff,
                   !.routers[r].Routers = Append(@, rt)]

(***************************************************************************)
(* Full paths, patching and documentation                                  *)
(***************************************************************************)
\* the router the application serves (PuffApp.RootRouter): the first made
RootRouter == 1

\* Config.OpenAPI before GenerateOpenAPISpec: the zero value
NoOpenAPI == [generated |-> FALSE, Paths |-> [path \in {} |-> EmptyMap]]

\* a.IncludeRouter(r): r is given the application, then included in the
\* root router
PuffAppIncludeRouter(S, r) ==
    IF r = nil THEN Abort(S, PanicNilPointer)
    ELSE RouterIncludeRouter([S EXCEPT !.routers[r].puff = ThePuffApp], RootRouter, r)

\* the loop `for router != nil { ...; router = router.parent }` is left:
\* climbing parent from r comes to nil.  A chain that has not ended after as
\* many steps as there are routers has come back to a router it passed
RECURSIVE climbEnds(_, _, _)
climbEnds(S, r, steps) ==
    IF r = nil THEN TRUE
    ELSE IF steps = 0 THEN FALSE
    ELSE climbEnds(S, S.routers[r].parent, steps - 1)

\* the routers a recursion over Routers visits below the routers of from, in
\* at most the given number of levels
RECURSIVE below(_, _, _)
below(S, from, levels) ==
    IF levels = 0 THEN from
    ELSE below(S, from \cup UNION {Range(S.routers[r].Routers) : r \in from}, levels - 1)

\* the parts generateCompletePath collects: router.Prefix from the outermost
\* ancestor of router r down to r
RECURSIVE prefixes(_, _)
prefixes(S, r) ==
    IF r = nil THEN <<>> ELSE prefixes(S, S.routers[r].parent) \o S.routers[r].Prefix

\* route.generateCompletePath(): every prefix up the parent chain, then Path
generateCompletePath(S, rt) == prefixes(S, S.routes[rt].Router) \o S.routes[rt].Path

\* route.FullPath(): the cached path when there is one, else computed and
\* kept; the computation is never left when the parent chain has a cycle
RouteFullPath(S, rt) ==
    IF Len(S.routes[rt].fullPath) # 0 THEN S
    ELSE IF ~climbEnds(S, S.routes[rt].Router, Len(S.routers)) THEN Abort(S, NeverReturns)
    ELSE [S EXCEPT !.routes[rt].fullPath = generateCompletePath(S, rt)]

\* route.getCompletePath(), called by patchRoutes: the full path is computed
\* and kept on the route, as FullPath does
getCompletePath(S, rt) == RouteFullPath(S, rt)

\* the documentation address of the applications made here, those of
\* DefaultApp: Config.DocsURL
DocsURL == <<"/", "d", "o", "c", "s">>

\* route.GenerateResponses(): Config.DocsURL is read through the router's
\* application, which a router without one does not have; with the
\* documentation on, the responses of every router up the parent chain are
\* merged into a copy that is dropped, in a loop that is never left when the
\* chain has a cycle.  Nothing held here is written
GenerateResponses(S, rt) ==
    LET router == S.routes[rt].Router
    IN  IF router = nil THEN Abort(S, PanicNilPointer)
        ELSE IF S.routers[router].puff = nil THEN Abort(S, PanicNilPointer)
        ELSE IF Len(DocsURL) = 0 THEN S
        ELSE IF ~climbEnds(S, router, Len(S.routers)) THEN Abort(S, NeverReturns)
        ELSE S

\* the loop of r.patchRoutes() over the routes left.  rejected holds the
\* routes whose fields handleInputSchema answers with an error: the loop
\* panics at the first of them, its Router and full path already written.
\* GenerateResponses is the last call of the body; a route it returned for
\* is patched
RECURSIVE patchEach(_, _, _, _)
patchEach(S, r, left, rejected) ==
    IF Len(left) = 0 THEN S
    ELSE LET rt == Head(left)
             owned == [S EXCEPT !.routes[rt].Router = r]
             pathed == getCompletePath(owned, rt)
             answered == GenerateResponses(pathed, rt)
         IN  IF pathed.panic # NoPanic THEN pathed
             ELSE IF rt \in rejected THEN Abort(pathed, PanicInputSchema)
             ELSE IF answered.panic # NoPanic THEN answered
             ELSE patchEach([answered EXCEPT !.routes[rt].patched = TRUE],
                            r, Tail(left), rejected)

patchRoutes(S, r, rejected) == patchEach(S, r, S.routers[r].Routes, rejected)

\* patchRoutes over the routers left, until one panics
RECURSIVE patchRouters(_, _, _)
patchRouters(S, left, rejected) ==
    IF Len(left) = 0 \/ S.panic # NoPanic THEN S
    ELSE patchRouters(patchRoutes(S, Head(left), rejected), Tail(left), rejected)

\* r.Use(m): m is appended to the router's Middlewares
RouterUse(S, r, m) == [S EXCEPT !.routers[r].Middlewares = Append(@, m)]

\* the inner loop of attachMiddlewares: route.Handler = m(route.Handler) for
\* each m of the combination in turn, so that each m wraps the ones before it
RECURSIVE wrapHandler(_, _)
wrapHandler(handler, middleware_combo) ==
    IF Len(middleware_combo) = 0 THEN handler
    ELSE wrapHandler(<<Head(middleware_combo)>> \o handler, Tail(middleware_combo))

\* the loop of attachMiddlewares over the routes left
RECURSIVE wrapRoutes(_, _, _)
wrapRoutes(S, left, middleware_combo) ==
    IF Len(left) = 0 THEN S
    ELSE wrapRoutes([S EXCEPT !.routes[Head(left)].Handler = wrapHandler(@, middleware_combo)],
                    Tail(left), middleware_combo)

\* attachMiddlewares(middleware_combo, router): the router's middlewares are
\* appended to the combination, its routes wrapped, and its Routers visited
\* with the longer combination.  A router that is below itself is visited
\* again and again until the stack is full
RECURSIVE attachMiddlewares(_, _, _)
RECURSIVE attachRouters(_, _, _)
attachRouters(S, middleware_combo, left) ==
    IF Len(left) = 0 \/ S.panic # NoPanic THEN S
    ELSE attachRouters(attachMiddlewares(S, middleware_combo, Head(left)),
                       middleware_combo, Tail(left))

attachMiddlewares(S, middleware_combo, router) ==
    LET nmc == middleware_combo \o S.routers[router].Middlewares
    IN  IF router \in below(S, Range(S.routers[router].Routers), Len(S.routers))
        THEN Abort(S, FatalStackOverflow)
        ELSE attachRouters(wrapRoutes(S, S.routers[router].Routes, nmc),
                           nmc, S.routers[router].Routers)

\* a.patchAllRoutes(): patchRoutes on the root router and the routers listed
\* in its Routers, then attachMiddlewares from the root router down; a
\* patchRoutes that panics or is never left ends the call
patchAllRoutes(S, rejected) ==
    LET patched == patchRouters(patchRoutes(S, RootRouter, rejected),
                                S.routers[RootRouter].Routers, rejected)
    IN  IF patched.panic # NoPanic THEN patched
        ELSE attachMiddlewares(patched, <<>>, RootRouter)

\* r.AllRoutes(): r's routes, then those of each router of r.Routers in turn
RECURSIVE AllRoutes(_, _)
RECURSIVE allRoutesOf(_, _)
allRoutesOf(S, subRouters) ==
    IF Len(subRouters) = 0 THEN <<>>
    ELSE AllRoutes(S, Head(subRouters)) \o allRoutesOf(S, Tail(subRouters))

AllRoutes(S, r) == S.routers[r].Routes \o allRoutesOf(S, S.routers[r].Routers)

\* the paths made so far and the panic that ended the making
Documented(paths, value) == [paths |-> paths, panic |-> value]

\* addRoute: the operation of the route's method under its fullPath; the tag
\* is read through route.Router first, which a route that was neither
\* registered by registerRoute nor patched does not have
addRoute(S, rt, paths) ==
    IF S.routes[rt].Router = nil THEN Documented(paths, PanicNilPointer)
    ELSE LET fullPath == S.routes[rt].fullPath
             pathItem == IF fullPath \in DOMAIN paths THEN paths[fullPath] ELSE EmptyMap
         IN  Documented(MapSet(paths, fullPath, MapSet(pathItem, S.routes[rt].Protocol, rt)),
                        NoPanic)

RECURSIVE addRoutes(_, _, _)
addRoutes(S, left, made) ==
    IF Len(left) = 0 \/ made.panic # NoPanic THEN made
    ELSE addRoutes(S, Tail(left), addRoute(S, Head(left), made.paths))

RECURSIVE addRouters(_, _, _)
addRouters(S, left, made) ==
    IF Len(left) = 0 \/ made.panic # NoPanic THEN made
    ELSE addRouters(S, Tail(left), addRoutes(S, S.routers[Head(left)].Routes, made))

\* a.GeneratePathsTags(): the paths of the root router's routes and of the
\* routes of the routers listed in its Routers
GeneratePathsTags(S) ==
    addRouters(S, S.routers[RootRouter].Routers,
               addRoutes(S, S.routers[RootRouter].Routes,
                         Documented(NoOpenAPI.Paths, NoPanic)))

\* a.GenerateOpenAPISpec() on the documentation api: when it is the zero
\* value a new one is stored and then given the generated paths; a panic of
\* GeneratePathsTags leaves the new one without paths
generateOpenAPISpec(S, api) ==
    IF api # NoOpenAPI THEN [openAPI |-> api, panic |-> NoPanic]
    ELSE LET made == GeneratePathsTags(S)
         IN  [openAPI |-> [generated |-> TRUE,
                           Paths |-> IF made.panic = NoPanic THEN made.paths
                                     ELSE NoOpenAPI.Paths],
              panic |-> made.panic]

\* Router.WebSocket(path): the route is built with the WebSocket flag and the
\* GET protocol, its Router field left nil, and appended to r.Routes; no node
\* of the tree is touched
RouterWebSocket(S, r, path) ==
    LET newRoute == Len(S.routes) + 1
    IN  [S EXCEPT !.routes = Append(@, [Path |-> path, Protocol |-> MethodGet,
                                        Router |-> nil, WebSocket |-> TRUE,
                                        Handler |-> <<>>,
                                        fullPath |-> <<>>, patched |-> FALSE]),
                  !.routers[r].Routes = Append(@, newRoute)]

\* registerRoute(router, method, path, ...), the function behind puff.Get,
\* puff.Post, puff.Put, puff.Patch, puff.Delete and puff.WebSocket: the route is built with its Router set and appended to
\* router.Routes; no node of a tree is touched
puffRegisterRoute(S, router, method, path) ==
    IF router = nil THEN Abort(S, PanicNilPointer)
    ELSE LET newRoute == Len(S.routes) + 1
         IN  [S EXCEPT !.routes = Append(@, [Path |-> path, Protocol |-> method,
                                             Router |-> router, WebSocket |-> FALSE,
                                             Handler |-> <<>>,
                                             fullPath |-> <<>>, patched |-> FALSE]),
                       !.routers[router].Routes = Append(@, newRoute)]

\* puff.WebSocket(router, path, handler): the route is registered as a GET
\* route and then given the WebSocket flag
puffWebSocket(S, router, path) ==
    LET registered == puffRegisterRoute(S, router, MethodGet, path)
    IN  IF registered.panic # NoPanic THEN registered
        ELSE [registered EXCEPT !.routes[Len(registered.routes)].WebSocket = TRUE]

\* the documentation router of addOpenAPIRoutes: a Router literal with the
\* Prefix Config.DocsURL and a name, and so without a root node
DocsRouterName ==
    <<"O", "p", "e", "n", "A", "P", "I", " ", "D", "o", "c", "u", "m", "e", "n", "t", "a", "t", "i", "o", "n">> \o
    <<" ", "R", "o", "u", "t", "e", "r">>
DocsRouter ==
    [Name |-> DocsRouterName, Path |-> <<>>, Prefix |-> DocsURL, parent |-> nil,
     puff |-> nil, rootNode |-> nil, Routes |-> <<>>, Routers |-> <<>>, Middlewares |-> <<>>]

\* a.addOpenAPIRoutes(): unless generation is disabled, the documentation is
\* generated, the documentation router is made, given GET ".json" and GET ""
\* and included in the root router.  The router is a local of the call: a
\* panic before IncludeRouter leaves nothing of it
addOpenAPIRoutes(S, api, disabled) ==
    IF disabled THEN [config |-> S, openAPI |-> api]
    ELSE LET generated == generateOpenAPISpec(S, api)
             docsRouter == Len(S.routers) + 1
             made == [S EXCEPT !.routers = Append(@, DocsRouter)]
             json == registerRoute(made, docsRouter, MethodGet, <<".", "j", "s", "o", "n">>)
             ui == registerRoute(json, docsRouter, MethodGet, <<>>)
         IN  IF generated.panic # NoPanic
             THEN [config |-> Abort(S, generated.panic), openAPI |-> generated.openAPI]
             ELSE IF json.panic # NoPanic
             THEN [config |-> Abort(S, json.panic), openAPI |-> generated.openAPI]
             ELSE IF ui.panic # NoPanic
             THEN [config |-> Abort(S, ui.panic), openAPI |-> generated.openAPI]
             ELSE [config |-> PuffAppIncludeRouter(ui, docsRouter),
                   openAPI |-> generated.openAPI]

\* a.ListenAndServe(): patchAllRoutes, then addOpenAPIRoutes, up to the
\* start of the server
listenAndServe(S, api, disabled, rejected) ==
    LET patched == patchAllRoutes(S, rejected)
    IN  IF patched.panic # NoPanic THEN [config |-> patched, openAPI |-> api]
        ELSE addOpenAPIRoutes(patched, api, disabled)

(***************************************************************************)
(* Dispatch                                                                *)
(***************************************************************************)
EmptyHeader == [h \in {} |-> ""]

\* nothing written: the latest step was not a request
NoResponse == [status |-> 0, route |-> nil, params |-> <<>>, header |-> EmptyHeader]

\* http.NotFound
NotFound ==
    [status |-> StatusNotFound, route |-> nil, params |-> <<>>,
     header |-> [h \in {"Content-Type", "X-Content-Type-Options"} |->
                    IF h = "Content-Type" THEN "text/plain; charset=utf-8" ELSE "nosniff"]]

\* ErrMethodNotAllowed (src/node.go): a JSON body with status 405
ErrMethodNotAllowed ==
    [status |-> StatusMethodNotAllowed, route |-> nil, params |-> <<>>,
     header |-> [h \in {"Content-Type"} |-> "application/json"]]

\* which branch of the child loop of ServeHTTP takes this child, if any
ExactMatch == "exact"
ParamMatch == "param"
PrefixMatch == "prefix"
NoMatch == "none"

childMatch(child, segment) ==
    LET segmentWithSlash == <<"/">> \o segment
    IN  IF child.prefix = segmentWithSlash THEN ExactMatch
        ELSE IF child.type_ = nodePathParam THEN ParamMatch
        ELSE IF HasPrefix(segmentWithSlash, child.prefix) \/ HasPrefix(segment, child.prefix)
             THEN PrefixMatch
        ELSE NoMatch

\* the segment loop of ServeHTTP: the first child any branch takes is
\* committed to
RECURSIVE serveWalk(_, _, _, _)
serveWalk(ns, current, segments, params) ==
    IF Len(segments) = 0
    THEN [found |-> TRUE, node |-> current, params |-> params, panic |-> NoPanic]
    ELSE IF current = nil
    THEN [found |-> FALSE, node |-> nil, params |-> params, panic |-> PanicNilPointer]
    ELSE LET segment == Head(segments)
             cs == ns[current].children
             hits == {i \in 1..Len(cs) : childMatch(ns[cs[i]], segment) # NoMatch}
         IN  IF hits = {}
             THEN [found |-> FALSE, node |-> current, params |-> params, panic |-> NoPanic]
             ELSE LET child == cs[Min(hits)]
                  IN  serveWalk(ns, child, Tail(segments),
                                IF childMatch(ns[child], segment) = ParamMatch
                                THEN Append(params, segment) ELSE params)

\* the node the walk of a request path ends on and the parameters captured
Landing(S, r, path) ==
    serveWalk(S.nodes, S.routers[r].rootNode, segmentPath(path), <<>>)

\* Router.ServeHTTP: the response of router r to (method, path) in the
\* configuration S; bindErr is the answer of populateInputSchema, the
\* field-binding collaborator.  A router without a root node dereferences nil
\* and writes nothing.  The routes in a method map are those addRouteToNode
\* put there, whose WebSocket flag is unset, so the handleWebSocket step before
\* the handler is never taken.
RouterServeHTTP(S, r, method, path, bindErr) ==
    LET walked == Landing(S, r, path)
    IN  IF S.routers[r].rootNode = nil THEN NoResponse
        ELSE IF ~walked.found THEN NotFound
        ELSE LET current == S.nodes[walked.node]
             IN  IF ~current.routesNil
                 THEN IF method \notin DOMAIN current.routes THEN ErrMethodNotAllowed
                      ELSE IF bindErr
                      THEN [status |-> StatusBadRequest, route |-> current.routes[method],
                            params |-> walked.params, header |-> EmptyHeader]
                      ELSE [status |-> StatusOK, route |-> current.routes[method],
                            params |-> walked.params, header |-> EmptyHeader]
                 ELSE NotFound

ServePanic(S, r) == IF S.routers[r].rootNode = nil THEN PanicNilPointer ELSE NoPanic

\* the collaborators ServeHTTP invokes
CallPopulateInputSchema == "populateInputSchema"
CallHandler == "Handler"

\* a ServeHTTP call that has not begun
Idle ==
    [pc |-> "idle", r |-> nil, method |-> "", path |-> <<>>, segments |-> <<>>,
     current |-> nil, params |-> <<>>, route |-> nil, status |-> 0,
     bindErr |-> FALSE, log |-> <<>>]

(***************************************************************************)
(* Inputs                                                                  *)
(***************************************************************************)
\* the most routes a run registers
MaxRoutes == 2

\* the most middlewares a router is given
MaxMiddlewares == 2

\* the middlewares handed to Use
MiddlewareNames == {"logging", "auth"}

\* the most ServeHTTP calls that run side by side
MaxCalls == 2
CallIds == 1..MaxCalls

Methods == {MethodGet, MethodPost, MethodPut, MethodPatch, MethodDelete}

\* router names given to NewRouter; a router's id is its position here
RouterNames == << <<"A">>, <<"B">>, <<"C">> >>
RouterIds == 1..Len(RouterNames)

\* the prefixes given to NewRouter(name, prefix) for the routers after the
\* root router
RouterPrefixes == << <<"/", "p">>, <<"/", "c">> >>

PathEmpty == <<>>
PathSlash == <<"/">>
PathBareA == <<"a">>
PathBareB == <<"b">>
PathA == <<"/", "a">>
PathAB == <<"/", "a", "b">>
PathB == <<"/", "b">>
PathX == <<"/", "x">>
PathBX == <<"/", "b", "/", "x">>
PathUsers == <<"/", "u", "s", "e", "r", "s">>
PathUsersId == <<"/", "u", "s", "e", "r", "s", "/", "{", "i", "d", "}">>
PathUsers42 == <<"/", "u", "s", "e", "r", "s", "/", "4", "2">>
PathUsersAbc == <<"/", "u", "s", "e", "r", "s", "/", "a", "b", "c">>
PathUsers42Extra ==
    <<"/", "u", "s", "e", "r", "s", "/", "4", "2", "/", "e", "x", "t", "r", "a">>
PathFilesRest == <<"/", "f", "i", "l", "e", "s", "/", "*", "r", "e", "s", "t">>
PathFilesABC == <<"/", "f", "i", "l", "e", "s", "/", "a", "/", "b", "/", "c">>
PathFilesSlash == <<"/", "f", "i", "l", "e", "s", "/">>

PathBareId == <<"{", "i", "d", "}">>
PathBareRest == <<"*", "r", "e", "s", "t">>
Path42 == <<"/", "4", "2">>
PathTest == <<"/", "t", "e", "s", "t">>
PathData == <<"/", "d", "a", "t", "a">>
PathWs == <<"/", "w", "s">>

\* paths handed to Get/Post/Put/Patch/Delete: the root written both ways,
\* static segments, one a string prefix of another, two levels
RegisterPaths == {PathEmpty, PathSlash, PathA, PathAB, PathX, PathB, PathBX}

\* prefixes handed to Mount
MountPaths == {PathEmpty, PathBareB, PathSlash, PathB}

\* request paths and methods handed to ServeHTTP
RequestPaths == {PathA, PathAB, PathB, PathBX}
RequestMethods == {MethodGet, MethodPut}

\* paths with a {param} or a *wildcard segment or without the leading slash,
\* and the requests for them
DynamicPaths ==
    {PathUsersId, PathFilesRest, PathBareId, PathBareRest, PathUsers, PathBareA}
DynamicRequestPaths ==
    {PathUsers, PathUsers42, PathUsersAbc, PathUsers42Extra, PathFilesABC,
     PathFilesSlash, Path42, PathA}

(***************************************************************************)
(* The program                                                             *)
(***************************************************************************)
\* the routers of names, made in order by NewRouter(name) after the routers
\* rtrs, until a NewRouter panics
RECURSIVE construct(_, _, _)
construct(ns, rtrs, names) ==
    IF Len(names) = 0 THEN [nodes |-> ns, routers |-> rtrs, panic |-> NoPanic]
    ELSE LET made == NewRouter(ns, Head(names))
         IN  IF made.panic # NoPanic
             THEN [nodes |-> ns, routers |-> rtrs, panic |-> made.panic]
             ELSE construct(made.nodes, Append(rtrs, made.router), Tail(names))

\* puff.App(c): the root router is NewRouter(c.Name) and is given the
\* application; a panic of NewRouter leaves no router
App(name) ==
    LET r == NewRouter(<<>>, name)
    IN  [nodes |-> r.nodes,
         routers |-> IF r.panic # NoPanic THEN <<>>
                     ELSE <<[r.router EXCEPT !.puff = ThePuffApp]>>,
         panic |-> r.panic]

\* puff.DefaultApp(name): App with that name and the documentation at DocsURL
DefaultApp(name) == App(name)

\* names handed to DefaultApp: the empty name of testpuffserver, a word, a
\* name with a slash and one with an empty inner segment
AppNames == {<<>>, <<"A">>, <<"a", "/", "b">>, <<"a", "/", "/", "b">>}

\* the program of an application made by DefaultApp(name), whose root router
\* is the first router, and of the other routers of RouterNames, made by
\* NewRouter(name)
InitApp ==
    \E name \in AppNames :
        LET app == DefaultApp(name)
            built == IF app.panic # NoPanic THEN app
                     ELSE construct(app.nodes, app.routers, Tail(RouterNames))
        IN  /\ nodes = built.nodes
            /\ routes = <<>>
            /\ routers = built.routers
            /\ panicked = built.panic
            /\ response = NoResponse
            /\ inflight = [c \in CallIds |-> Idle]
            /\ openAPI = NoOpenAPI

\* that program for the application named as the first of RouterNames
Init ==
    LET app == DefaultApp(Head(RouterNames))
        built == IF app.panic # NoPanic THEN app
                 ELSE construct(app.nodes, app.routers, Tail(RouterNames))
    IN  /\ nodes = built.nodes
        /\ routes = <<>>
        /\ routers = built.routers
        /\ panicked = built.panic
        /\ response = NoResponse
        /\ inflight = [c \in CallIds |-> Idle]
        /\ openAPI = NoOpenAPI

\* the program of that application and of routers made by
\* NewRouter(name, prefix), which have a prefix and no tree
InitPrefixed ==
    LET app == DefaultApp(Head(RouterNames))
        names == Tail(RouterNames)
    IN  /\ nodes = app.nodes
        /\ routes = <<>>
        /\ routers = app.routers \o
                        [i \in 1..Len(names) |-> NewRouterPrefix(names[i], RouterPrefixes[i])]
        /\ panicked = app.panic
        /\ response = NoResponse
        /\ inflight = [c \in CallIds |-> Idle]
        /\ openAPI = NoOpenAPI

\* a configuration call: its writes, and its panic if it aborted
Configure(after) ==
    /\ nodes' = after.nodes
    /\ routes' = after.routes
    /\ routers' = after.routers
    /\ panicked' = after.panic
    /\ response' = NoResponse
    /\ UNCHANGED <<inflight, openAPI>>

\* the configuration the program holds
Current == Config(nodes, routes, routers)

\* the program runs and the run has routes left to register
CanRegister == panicked = NoPanic /\ Len(routes) < MaxRoutes

Get(r, path) ==
    /\ CanRegister
    /\ Configure(registerRoute(Current, r, MethodGet, path))

Post(r, path) ==
    /\ CanRegister
    /\ Configure(registerRoute(Current, r, MethodPost, path))

Put(r, path) ==
    /\ CanRegister
    /\ Configure(registerRoute(Current, r, MethodPut, path))

Patch(r, path) ==
    /\ CanRegister
    /\ Configure(registerRoute(Current, r, MethodPatch, path))

Delete(r, path) ==
    /\ CanRegister
    /\ Configure(registerRoute(Current, r, MethodDelete, path))

Use(r, m) ==
    /\ panicked = NoPanic
    /\ Len(routers[r].Middlewares) < MaxMiddlewares
    /\ Configure(RouterUse(Current, r, m))

WebSocket(r, path) ==
    /\ CanRegister
    /\ Configure(RouterWebSocket(Current, r, path))

Mount(r, mountPath, subRouter) ==
    /\ panicked = NoPanic
    /\ Configure(RouterMount(Current, r, mountPath, subRouter))

IncludeRouter(r, rt) ==
    /\ panicked = NoPanic
    /\ Configure(RouterIncludeRouter(Current, r, rt))

\* puff.Get(router, path, handler) and the functions next to it, one for
\* each method and one for WebSocket routes
PuffGet(router, path) ==
    /\ CanRegister
    /\ Configure(puffRegisterRoute(Current, router, MethodGet, path))

PuffPost(router, path) ==
    /\ CanRegister
    /\ Configure(puffRegisterRoute(Current, router, MethodPost, path))

PuffPut(router, path) ==
    /\ CanRegister
    /\ Configure(puffRegisterRoute(Current, router, MethodPut, path))

PuffPatch(router, path) ==
    /\ CanRegister
    /\ Configure(puffRegisterRoute(Current, router, MethodPatch, path))

PuffDelete(router, path) ==
    /\ CanRegister
    /\ Configure(puffRegisterRoute(Current, router, MethodDelete, path))

PuffWebSocket(router, path) ==
    /\ CanRegister
    /\ Configure(puffWebSocket(Current, router, path))

\* a.IncludeRouter(rt) on the application
AppIncludeRouter(rt) ==
    /\ panicked = NoPanic
    /\ Configure(PuffAppIncludeRouter(Current, rt))

ServeHTTP(r, method, path, bindErr) ==
    /\ panicked = NoPanic
    /\ response' = RouterServeHTTP(Current, r, method, path, bindErr)
    /\ panicked' = ServePanic(Current, r)
    /\ UNCHANGED <<openAPI, nodes, routes, routers, inflight>>

(***************************************************************************)
(* ServeHTTP one step at a time, for calls that run side by side.  A call  *)
(* holds the locals of ServeHTTP: segments (what the loop has left),       *)
(* current, params; and what it did: the route looked up, the status       *)
(* written, the answer of populateInputSchema and the collaborators        *)
(* invoked, in order.                                                      *)
(***************************************************************************)
\* the call is over: it wrote that status
Done(call, status) == [call EXCEPT !.pc = "done", !.status = status]

\* ServeBegin with a params list that outlives the call: a call starts from
\* the list an earlier call left
ServeBegin_KeepParams(c, r, method, path) ==
    LET left == {d \in CallIds : inflight[d].pc = "done"}
    IN  /\ panicked = NoPanic
        /\ inflight[c].pc = "idle"
        /\ inflight' = [inflight EXCEPT ![c] =
                [Idle EXCEPT !.pc = "walk", !.r = r, !.method = method, !.path = path,
                             !.segments = segmentPath(path),
                             !.current = routers[r].rootNode,
                             !.params = IF left = {} THEN <<>>
                                        ELSE inflight[Min(left)].params]]
        /\ UNCHANGED <<openAPI, nodes, routes, routers, panicked, response>>

\* entry of ServeHTTP: segments, current and a fresh params
ServeBegin(c, r, method, path) ==
    /\ panicked = NoPanic
    /\ inflight[c].pc = "idle"
    /\ inflight' = [inflight EXCEPT ![c] =
            [Idle EXCEPT !.pc = "walk", !.r = r, !.method = method, !.path = path,
                         !.segments = segmentPath(path),
                         !.current = routers[r].rootNode,
                         !.params = <<>>]]
    /\ UNCHANGED <<openAPI, nodes, routes, routers, panicked, response>>

\* ServeSegment with one params list for all calls: a captured segment is
\* appended for every call that is walking
ServeSegment_SharedParams(c) ==
    LET call == inflight[c]
        segment == Head(call.segments)
        cs == nodes[call.current].children
        hits == {i \in 1..Len(cs) : childMatch(nodes[cs[i]], segment) # NoMatch}
        child == cs[Min(hits)]
        captured == hits # {} /\ childMatch(nodes[child], segment) = ParamMatch
    IN  /\ panicked = NoPanic
        /\ call.pc = "walk"
        /\ Len(call.segments) > 0
        /\ call.current # nil
        /\ panicked' = NoPanic
        /\ inflight' = [d \in CallIds |->
                LET shared == IF captured /\ inflight[d].pc = "walk"
                              THEN [inflight[d] EXCEPT !.params = Append(@, segment)]
                              ELSE inflight[d]
                IN  IF d # c THEN shared
                    ELSE IF hits = {} THEN Done(call, StatusNotFound)
                    ELSE [shared EXCEPT !.segments = Tail(@), !.current = child]]
        /\ UNCHANGED <<openAPI, nodes, routes, routers, response>>

\* one iteration of the segment loop: the first child a branch takes, or
\* 404; a nil current is dereferenced
ServeSegment(c) ==
    LET call == inflight[c]
        segment == Head(call.segments)
        cs == nodes[call.current].children
        hits == {i \in 1..Len(cs) : childMatch(nodes[cs[i]], segment) # NoMatch}
        child == cs[Min(hits)]
    IN  /\ panicked = NoPanic
        /\ call.pc = "walk"
        /\ Len(call.segments) > 0
        /\ panicked' = IF call.current = nil THEN PanicNilPointer ELSE NoPanic
        /\ inflight' = [inflight EXCEPT ![c] =
                IF call.current = nil THEN call
                ELSE IF hits = {} THEN Done(call, StatusNotFound)
                ELSE [call EXCEPT
                        !.segments = Tail(@),
                        !.current = child,
                        !.params = IF childMatch(nodes[child], segment) = ParamMatch
                                   THEN Append(@, segment) ELSE @]]
        /\ UNCHANGED <<openAPI, nodes, routes, routers, response>>

\* ServeRoute without the test that the method map is set
ServeRoute_UnsetMapIs405(c) ==
    LET call == inflight[c]
        current == nodes[call.current]
    IN  /\ panicked = NoPanic
        /\ call.pc = "walk"
        /\ Len(call.segments) = 0
        /\ call.current # nil
        /\ panicked' = NoPanic
        /\ inflight' = [inflight EXCEPT ![c] =
                IF call.method \notin DOMAIN current.routes
                THEN Done(call, StatusMethodNotAllowed)
                ELSE [call EXCEPT !.pc = "bind", !.route = current.routes[call.method]]]
        /\ UNCHANGED <<openAPI, nodes, routes, routers, response>>

\* after the loop: the method map of the landing node; a nil current is
\* dereferenced
ServeRoute(c) ==
    LET call == inflight[c]
        current == nodes[call.current]
    IN  /\ panicked = NoPanic
        /\ call.pc = "walk"
        /\ Len(call.segments) = 0
        /\ panicked' = IF call.current = nil THEN PanicNilPointer ELSE NoPanic
        /\ inflight' = [inflight EXCEPT ![c] =
                IF call.current = nil THEN call
                ELSE IF current.routesNil THEN Done(call, StatusNotFound)
                ELSE IF call.method \notin DOMAIN current.routes
                THEN Done(call, StatusMethodNotAllowed)
                ELSE [call EXCEPT !.pc = "bind", !.route = current.routes[call.method]]]
        /\ UNCHANGED <<openAPI, nodes, routes, routers, response>>

\* ServeBind without the return on error: the handler runs whatever
\* populateInputSchema answered
ServeBind_IgnoreError(c, bindErr) ==
    LET call == [inflight[c] EXCEPT !.bindErr = bindErr,
                                    !.log = Append(@, CallPopulateInputSchema)]
    IN  /\ panicked = NoPanic
        /\ inflight[c].pc = "bind"
        /\ inflight' = [inflight EXCEPT ![c] = [call EXCEPT !.pc = "handler"]]
        /\ UNCHANGED <<openAPI, nodes, routes, routers, panicked, response>>

\* populateInputSchema and its answer: an error is a 400
ServeBind(c, bindErr) ==
    LET call == [inflight[c] EXCEPT !.bindErr = bindErr,
                                    !.log = Append(@, CallPopulateInputSchema)]
    IN  /\ panicked = NoPanic
        /\ inflight[c].pc = "bind"
        /\ inflight' = [inflight EXCEPT ![c] =
                IF bindErr THEN Done(call, StatusBadRequest)
                ELSE [call EXCEPT !.pc = "handler"]]
        /\ UNCHANGED <<openAPI, nodes, routes, routers, panicked, response>>

\* route.Handler(c)
ServeHandler(c) ==
    /\ panicked = NoPanic
    /\ inflight[c].pc = "handler"
    /\ inflight' = [inflight EXCEPT ![c] =
            Done([@ EXCEPT !.log = Append(@, CallHandler)], StatusOK)]
    /\ UNCHANGED <<openAPI, nodes, routes, routers, panicked, response>>

(***************************************************************************)
(* The application: full paths, patching, documentation                    *)
(***************************************************************************)
\* route.FullPath() on a registered route
FullPath(rt) ==
    /\ panicked = NoPanic
    /\ LET after == RouteFullPath(Current, rt)
       IN  /\ routes' = after.routes
           /\ panicked' = after.panic
    /\ UNCHANGED <<nodes, routers, response, inflight, openAPI>>

\* a.patchAllRoutes(); rejected are the routes whose input schema is rejected
PatchAllRoutes ==
    /\ panicked = NoPanic
    /\ \E rejected \in SUBSET (1..Len(routes)) :
           LET after == patchAllRoutes(Current, rejected)
           IN  /\ routes' = after.routes
               /\ panicked' = after.panic
    /\ UNCHANGED <<nodes, routers, response, inflight, openAPI>>

\* a.GenerateOpenAPISpec(): generates the paths unless Config.OpenAPI is set
GenerateOpenAPISpec ==
    /\ panicked = NoPanic
    /\ LET after == generateOpenAPISpec(Current, openAPI)
       IN  /\ openAPI' = after.openAPI
           /\ panicked' = after.panic
    /\ UNCHANGED <<nodes, routes, routers, response, inflight>>

\* a.ListenAndServe(addr) up to the start of the server; disabled is
\* Config.DisableOpenAPIGeneration
ListenAndServe ==
    /\ panicked = NoPanic
    /\ \E disabled \in BOOLEAN, rejected \in SUBSET (1..Len(routes)) :
           LET after == listenAndServe(Current, openAPI, disabled, rejected)
           IN  /\ nodes' = after.config.nodes
               /\ routes' = after.config.routes
               /\ routers' = after.config.routers
               /\ panicked' = after.config.panic
               /\ openAPI' = after.openAPI
    /\ UNCHANGED <<response, inflight>>

\* the calls a run may make: register holds <<router, method, path>>, mount
\* <<router, mountPath, subRouter>> and request <<router, method, path>>
Calls(register, mount, request) ==
    [register |-> register, mount |-> mount, request |-> request]

\* the <<router, method, path>> of calls that name the method
With(register, method) == {c \in register : c[2] = method}

Step(calls) ==
    \/ \E c \in With(calls.register, MethodGet) : Get(c[1], c[3])
    \/ \E c \in With(calls.register, MethodPost) : Post(c[1], c[3])
    \/ \E c \in With(calls.register, MethodPut) : Put(c[1], c[3])
    \/ \E c \in With(calls.register, MethodPatch) : Patch(c[1], c[3])
    \/ \E c \in With(calls.register, MethodDelete) : Delete(c[1], c[3])
    \/ \E c \in calls.mount : Mount(c[1], c[2], c[3])
    \/ \E c \in calls.request, bindErr \in BOOLEAN : ServeHTTP(c[1], c[2], c[3], bindErr)

\* an application router A and a router B that A mounts: every method on
\* every path of both
Next ==
    Step(Calls({1, 2} \X Methods \X RegisterPaths,
               {1} \X MountPaths \X {nil, 1, 2},
               {1, 2} \X RequestMethods \X RequestPaths))

Spec == Init /\ [][Next]_vars

\* one router whose paths have {param} and *wildcard segments or no leading slash
NextDynamic ==
    Step(Calls({1} \X Methods \X DynamicPaths,
               {1} \X {PathB} \X {2},
               {1} \X RequestMethods \X DynamicRequestPaths))

SpecDynamic == Init /\ [][NextDynamic]_vars

\* three routers mounted on one another in every way, over a few routes;
\* the requests go to the application's router
MountRegistrations ==
    {<<1, MethodGet, PathB>>, <<1, MethodPost, PathBX>>, <<2, MethodGet, PathEmpty>>,
     <<2, MethodPut, PathX>>, <<3, MethodPatch, PathX>>, <<3, MethodDelete, PathEmpty>>}

NextMount ==
    Step(Calls(MountRegistrations,
               RouterIds \X MountPaths \X RouterIds,
               {RootRouter} \X {MethodGet, MethodPut} \X {PathB, PathBX}))

SpecMount == Init /\ [][NextMount]_vars

\* the configuration phase lasts until the first request
Configuring == \A c \in CallIds : inflight[c].pc = "idle"

\* a router with a {param} child, a route under an unbound node, a node bound
\* for POST only and a mount of an empty router; then requests side by side
ServeRequestPaths == {Path42, PathA, PathB, PathBX}

NextServe ==
    \/ Configuring /\ \E path \in {PathBareId, PathBX} : Get(1, path)
    \/ Configuring /\ Post(1, PathB)
    \/ Configuring /\ Mount(1, PathA, 2)
    \/ \E c \in CallIds, path \in ServeRequestPaths : ServeBegin(c, 1, MethodGet, path)
    \/ \E c \in CallIds : ServeSegment(c)
    \/ \E c \in CallIds : ServeRoute(c)
    \/ \E c \in CallIds, bindErr \in BOOLEAN : ServeBind(c, bindErr)
    \/ \E c \in CallIds : ServeHandler(c)

SpecServe == Init /\ [][NextServe]_vars

\* an application whose root router A mounts B and B mounts C, with routes on
\* each; C is also included, by a router or by the application, and the root
\* router itself is included in B; full paths are asked for, routes patched
\* and documentation generated at any time
AppRegistrations ==
    {<<1, MethodGet, PathA>>, <<2, MethodGet, PathX>>, <<2, MethodPost, PathEmpty>>,
     <<3, MethodGet, PathX>>}

NextApp ==
    \/ \E c \in With(AppRegistrations, MethodGet) : Get(c[1], c[3])
    \/ \E c \in With(AppRegistrations, MethodPost) : Post(c[1], c[3])
    \/ \E c \in {<<1, PathB, 2>>, <<2, PathB, 3>>} : Mount(c[1], c[2], c[3])
    \/ \E c \in {<<1, 3>>, <<2, 3>>, <<2, 1>>} : IncludeRouter(c[1], c[2])
    \/ AppIncludeRouter(3)
    \/ \E rt \in 1..Len(routes) : FullPath(rt)
    \/ PatchAllRoutes
    \/ GenerateOpenAPISpec

SpecApp == Init /\ [][NextApp]_vars

\* an application and two routers made with the prefixes "/p" and "/c":
\* routes are registered on them with puff.Get and the functions next to
\* it, the routers
\* are included in one another and in the application, full paths are asked
\* for, routes patched and documentation generated at any time
NextPrefix ==
    \/ \E router \in RouterIds, path \in {PathA, PathX} : PuffGet(router, path)
    \/ PuffPost(2, PathEmpty)
    \/ PuffPut(2, PathX)
    \/ PuffPatch(2, PathX)
    \/ PuffDelete(3, PathX)
    \/ \E router \in {2, 3} : PuffWebSocket(router, PathWs)
    \/ \E c \in {<<1, 2>>, <<1, 3>>, <<2, 3>>} : IncludeRouter(c[1], c[2])
    \/ AppIncludeRouter(3)
    \/ \E rt \in 1..Len(routes) : FullPath(rt)
    \/ PatchAllRoutes
    \/ GenerateOpenAPISpec

SpecPrefix == InitPrefixed /\ [][NextPrefix]_vars

\* the application of testpuffserver: DefaultApp(name), then GET /test,
\* POST /data and WebSocket /ws on the root router, ListenAndServe (or the
\* documentation asked for directly), and requests
NextPuff ==
    \/ Get(RootRouter, PathTest)
    \/ Post(RootRouter, PathData)
    \/ \E path \in {PathWs, PathTest} : WebSocket(RootRouter, path)
    \/ ListenAndServe
    \/ GenerateOpenAPISpec
    \/ \E method \in RequestMethods, path \in {PathTest, PathData, PathWs}, bindErr \in BOOLEAN :
           ServeHTTP(RootRouter, method, path, bindErr)

SpecPuff == InitApp /\ [][NextPuff]_vars

\* no handler is wrapped yet: patchAllRoutes has attached no middleware
Unwrapped == \A rt \in 1..Len(routes) : Len(routes[rt].Handler) = 0

\* an application whose root router A mounts B, with middlewares on both and
\* a route on each; the routes are patched once, as ListenAndServe does
NextMiddleware ==
    \/ \E r \in {1, 2}, m \in MiddlewareNames : Use(r, m)
    \/ Get(1, PathA)
    \/ Get(2, PathX)
    \/ Mount(1, PathB, 2)
    \/ Unwrapped /\ PatchAllRoutes

SpecMiddleware == Init /\ [][NextMiddleware]_vars

\* the longest path handed to segmentPath
MaxPathLen == 5

\* every string of slashes and letters up to that length: leading, trailing
\* and doubled slashes included
SegmentPaths == UNION {[1..n -> {"/", "a"}] : n \in 0..MaxPathLen}

\* one router that registers and serves every such path
NextSegment ==
    \/ \E path \in SegmentPaths : Get(1, path)
    \/ \E path \in SegmentPaths : ServeHTTP(1, MethodGet, path, FALSE)

SpecSegment == Init /\ [][NextSegment]_vars

(***************************************************************************)
(* Properties                                                              *)
(*                                                                         *)
(* A property of what a call does is stated of the call's result in every  *)
(* reachable configuration: registerRoute(Current, ...) and                *)
(* RouterMount(Current, ...) are the configurations the call would leave.  *)
(***************************************************************************)
RouteIds == 1..Len(routes)
NodeIds == 1..Len(nodes)

\* every segment of the path is a literal: no {param}, no *wildcard
AllStatic(path) ==
    \A i \in 1..Len(segmentPath(path)) :
        determineNodeType(segmentPath(path)[i]) = nodePrefix

\* the router took part in no Mount, as parent or as child
Unmounted(r) == routers[r].parent = nil /\ Len(routers[r].Routers) = 0

\* the route the router's dispatch selects for (method, path), or nil
Selected(S, r, method, path) == RouterServeHTTP(S, r, method, path, FALSE).route

\* the routes a router registered with that method and exactly that path
RoutesAt(r, method, path) ==
    {rt \in RouteIds :
        /\ routes[rt].Path = path
        /\ routes[rt].Protocol = method
        /\ routes[rt].Router = r}

\* the node whose method map binds the route, or nil
BoundAt(S, rt) ==
    LET at == {n \in 1..Len(S.nodes) :
                  \E m \in DOMAIN S.nodes[n].routes : S.nodes[n].routes[m] = rt}
    IN  IF at = {} THEN nil ELSE Min(at)

\* the arguments the specifications hand to registerRoute
AllRegisterPaths == RegisterPaths \cup DynamicPaths

\* C1: after successful registrations on a router that took part in no Mount,
\* every registered route whose path has only static segments is the route
\* ServeHTTP selects for its own method and path.
C1_StaticRouteSelected ==
    panicked = NoPanic =>
        \A rt \in RouteIds :
            (Unmounted(routes[rt].Router) /\ AllStatic(routes[rt].Path)) =>
                Selected(Current, routes[rt].Router, routes[rt].Protocol, routes[rt].Path) = rt

\* C2: with GET /users/{id} registered on a router that took part in no Mount,
\* GET /users/42 and GET /users/abc select that route and capture <<"42">> and
\* <<"abc">>; GET /users is a 404 unless /users itself is registered, and
\* GET /users/42/extra is a 404 (no deeper route is registered here).
C2_ParamRouteCaptures ==
    panicked = NoPanic =>
        \A r \in RouterIds : \A rt \in RoutesAt(r, MethodGet, PathUsersId) :
            Unmounted(r) =>
                /\ RouterServeHTTP(Current, r, MethodGet, PathUsers42, FALSE).route = rt
                /\ RouterServeHTTP(Current, r, MethodGet, PathUsers42, FALSE).params
                      = << <<"4", "2">> >>
                /\ RouterServeHTTP(Current, r, MethodGet, PathUsersAbc, FALSE).route = rt
                /\ RouterServeHTTP(Current, r, MethodGet, PathUsersAbc, FALSE).params
                      = << <<"a", "b", "c">> >>
                /\ (\A m \in Methods : RoutesAt(r, m, PathUsers) = {}) =>
                      RouterServeHTTP(Current, r, MethodGet, PathUsers, FALSE).status
                          = StatusNotFound
                /\ RouterServeHTTP(Current, r, MethodGet, PathUsers42Extra, FALSE).status
                      = StatusNotFound

\* C3: on a router that took part in no Mount and where GET at a path is all
\* that is registered, registering POST at that path succeeds, binds the POST
\* route at the node that binds the GET route, and GET and POST at that path
\* then each select their own route.
C3_GetThenPostSamePath ==
    panicked = NoPanic =>
        \A r \in RouterIds, path \in AllRegisterPaths :
            ( /\ Unmounted(r)
              /\ RoutesAt(r, MethodGet, path) # {}
              /\ \A rt \in RouteIds : routes[rt].Router = r => rt \in RoutesAt(r, MethodGet, path) )
            =>
            LET after == registerRoute(Current, r, MethodPost, path)
                posted == Len(routes) + 1
            IN  /\ after.panic = NoPanic
                /\ \A g \in RoutesAt(r, MethodGet, path) :
                      /\ BoundAt(after, posted) = BoundAt(after, g)
                      /\ Selected(after, r, MethodGet, path) = g
                      /\ Selected(after, r, MethodPost, path) = posted

\* the method maps of all nodes
MethodMaps(S) == [n \in 1..Len(S.nodes) |-> S.nodes[n].routes]

\* C4: registering a method at a path where the same router already
\* registered that method at exactly that path panics with a configuration
\* error, and no method map changes: each still maps the method to the route
\* it had.
C4_DuplicateMethodRejected ==
    panicked = NoPanic =>
        \A r \in RouterIds, method \in Methods, path \in AllRegisterPaths :
            RoutesAt(r, method, path) # {} =>
                LET after == registerRoute(Current, r, method, path)
                IN  /\ after.panic \in ConfigurationErrors
                    /\ MethodMaps(after) = MethodMaps(Current)

\* C5: when A.Mount(prefix, B) succeeds, every route of B is the route A's
\* ServeHTTP then selects for the route's method and prefix + the route's
\* path.
C5_MountedRoutesReachable ==
    panicked = NoPanic =>
        \A a \in RouterIds, b \in RouterIds, prefix \in MountPaths :
            LET after == RouterMount(Current, a, prefix, b)
            IN  after.panic = NoPanic =>
                    \A rt \in RouteIds : routes[rt].Router = b =>
                        Selected(after, a, routes[rt].Protocol, prefix \o routes[rt].Path) = rt

\* C6: Mount panics with a configuration error whenever the prefix is empty
\* or does not begin with '/', whenever subRouter is the receiver, and
\* whenever subRouter already has a parent.
C6_MountPreconditions ==
    panicked = NoPanic =>
        \A r \in RouterIds, subRouter \in RouterIds, mountPath \in MountPaths :
            ( \/ Len(mountPath) = 0
              \/ mountPath[1] # "/"
              \/ r = subRouter
              \/ routers[subRouter].parent # nil )
            => RouterMount(Current, r, mountPath, subRouter).panic \in ConfigurationErrors

\* a router with a parent was handed to Mount again and Mount panicked
C6_Witness ==
    /\ panicked = PanicAlreadyAttached
    /\ \E subRouter \in RouterIds : routers[subRouter].parent # nil

\* the arguments the specifications hand to ServeHTTP
AllRequestPaths == RequestPaths \cup DynamicRequestPaths

\* the elements of a list joined by ", "
RECURSIVE JoinComma(_)
JoinComma(list) ==
    IF Len(list) = 0 THEN ""
    ELSE IF Len(list) = 1 THEN list[1]
    ELSE list[1] \o ", " \o JoinComma(Tail(list))

\* the lists that hold every element of the set once
Orderings(set) ==
    {list \in [1..Cardinality(set) -> set] :
        \A i, j \in 1..Cardinality(set) : i # j => list[i] # list[j]}

\* C7: a request whose walk lands on a node with a method map that lacks the
\* request method is answered 405 with an Allow header that lists exactly the
\* methods bound at that node, each once, comma-separated.
C7_AllowHeaderOn405 ==
    panicked = NoPanic =>
        \A r \in RouterIds, method \in Methods, path \in AllRequestPaths :
            LET walked == Landing(Current, r, path)
                answer == RouterServeHTTP(Current, r, method, path, FALSE)
            IN  ( /\ walked.found
                  /\ ~nodes[walked.node].routesNil
                  /\ method \notin DOMAIN nodes[walked.node].routes )
                =>
                ( /\ answer.status = StatusMethodNotAllowed
                  /\ "Allow" \in DOMAIN answer.header
                  /\ \E list \in Orderings(DOMAIN nodes[walked.node].routes) :
                        answer.header["Allow"] = JoinComma(list) )

\* C8: with GET /files/*rest registered on a router that took part in no
\* Mount, GET /files/a/b/c selects that route and captures the one value
\* "a/b/c", and GET /files/ selects it and captures the empty string.
C8_WildcardCaptures ==
    panicked = NoPanic =>
        \A r \in RouterIds : \A rt \in RoutesAt(r, MethodGet, PathFilesRest) :
            Unmounted(r) =>
                /\ RouterServeHTTP(Current, r, MethodGet, PathFilesABC, FALSE).route = rt
                /\ RouterServeHTTP(Current, r, MethodGet, PathFilesABC, FALSE).params
                      = << <<"a", "/", "b", "/", "c">> >>
                /\ RouterServeHTTP(Current, r, MethodGet, PathFilesSlash, FALSE).route = rt
                /\ RouterServeHTTP(Current, r, MethodGet, PathFilesSlash, FALSE).params
                      = << <<>> >>

\* the positions of a node's children list that hold a child of that type
ChildrenOfType(n, type_) ==
    {i \in 1..Len(nodes[n].children) : nodes[nodes[n].children[i]].type_ = type_}

\* C9: after any successful registrations and mounts every node has static
\* children of pairwise distinct segment text, at most one param child and
\* at most one wildcard child.
C9_AmbiguityGuard ==
    panicked = NoPanic =>
        \A n \in NodeIds :
            /\ \A i, j \in ChildrenOfType(n, nodePrefix) :
                  i # j => nodes[nodes[n].children[i]].prefix
                              # nodes[nodes[n].children[j]].prefix
            /\ Cardinality(ChildrenOfType(n, nodePathParam)) <= 1
            /\ Cardinality(ChildrenOfType(n, nodeAny)) <= 1

\* the node Mount's segment loop reaches without making a node, or nil
RECURSIVE ExistingNode(_, _, _)
ExistingNode(ns, current, segments) ==
    IF Len(segments) = 0 \/ current = nil THEN current
    ELSE LET cs == ns[current].children
             hits == {i \in 1..Len(cs) : ns[cs[i]].prefix = <<"/">> \o Head(segments)}
         IN  IF hits = {} THEN nil ELSE ExistingNode(ns, cs[Min(hits)], Tail(segments))

\* the request paths tried to tell whether a route can still be dispatched
ProbePaths == RegisterPaths \cup {PathB \o path : path \in RegisterPaths}

Dispatchable(S, rt) ==
    \E r \in RouterIds, path \in ProbePaths : Selected(S, r, routes[rt].Protocol, path) = rt

\* C10: a Mount whose arguments are accepted and whose mount point already
\* binds a method that subRouter's root node binds too panics with a
\* configuration error; and a Mount that succeeds leaves every route that
\* some request selected selectable by some request.
C10_MountMethodCollision ==
    panicked = NoPanic =>
        \A r \in RouterIds, subRouter \in RouterIds, mountPath \in MountPaths :
            LET after == RouterMount(Current, r, mountPath, subRouter)
                M == ExistingNode(nodes, routers[r].rootNode, segmentPath(mountPath))
                subRoot == routers[subRouter].rootNode
            IN  /\ ( /\ r # subRouter
                     /\ Len(segmentPath(mountPath)) > 0 /\ mountPath[1] = "/"
                     /\ routers[subRouter].parent = nil
                     /\ M # nil
                     /\ (DOMAIN nodes[M].routes) \cap (DOMAIN nodes[subRoot].routes) # {} )
                   => after.panic \in ConfigurationErrors
                /\ after.panic = NoPanic =>
                      \A rt \in RouteIds : Dispatchable(Current, rt) => Dispatchable(after, rt)

\* C11: after successful registrations and mounts, every node's allMethods
\* lists exactly the keys of its method map: none missing, none extra, none
\* repeated.
C11_AllMethodsAreKeys ==
    panicked = NoPanic =>
        \A n \in NodeIds :
            /\ Range(nodes[n].allMethods) = DOMAIN nodes[n].routes
            /\ Len(nodes[n].allMethods) = Cardinality(DOMAIN nodes[n].routes)

\* the root nodes of the routers
RootNodes == {routers[r].rootNode : r \in RouterIds} \ {nil}

\* the places <<node, position>> of children lists that hold the node
HeldAt(n) ==
    {at \in NodeIds \X NodeIds :
        at[2] <= Len(nodes[at[1]].children) /\ nodes[at[1]].children[at[2]] = n}

\* the node reached from n by following parent references k times, or nil
RECURSIVE Ancestor(_, _)
Ancestor(n, k) ==
    IF n = nil \/ k = 0 THEN n ELSE Ancestor(nodes[n].parent, k - 1)

\* C12: after successful registrations and mounts, every node that is not a
\* router's root is held by exactly one children list, at one position, and
\* that list is its parent's; no root is held by any list; and the parent
\* references have no cycle.  Together: the nodes form a forest, with no node
\* reachable by two paths.
C12_NodesMovedNotShared ==
    panicked = NoPanic =>
        \A n \in NodeIds :
            /\ n \notin RootNodes =>
                  /\ Cardinality(HeldAt(n)) = 1
                  /\ \A at \in HeldAt(n) : at[1] = nodes[n].parent
            /\ n \in RootNodes => HeldAt(n) = {}
            /\ Ancestor(n, Len(nodes)) = nil

\* the child the child loop of ServeHTTP descends into from node n for the
\* segment, or nil
TakenChild(n, segment) ==
    LET cs == nodes[n].children
        hits == {i \in 1..Len(cs) : childMatch(nodes[cs[i]], segment) # NoMatch}
    IN  IF hits = {} THEN nil ELSE cs[Min(hits)]

\* the segments of the request paths the specifications hand to ServeHTTP
RequestSegments == UNION {Range(segmentPath(path)) : path \in AllRequestPaths}

\* the static children of n whose text is the segment
StaticChildren(n, segment) ==
    {nodes[n].children[i] : i \in
        {k \in ChildrenOfType(n, nodePrefix) :
            nodes[nodes[n].children[k]].prefix = <<"/">> \o segment}}

\* C13: at every node, for every request segment, ServeHTTP descends into a
\* static child whose text is the segment when there is one, whatever the
\* order of the children; and it descends into no wildcard child of a node
\* that has a param child.
C13_StaticParamWildcardPriority ==
    panicked = NoPanic =>
        \A n \in NodeIds, segment \in RequestSegments :
            /\ StaticChildren(n, segment) # {} =>
                  TakenChild(n, segment) \in StaticChildren(n, segment)
            /\ ChildrenOfType(n, nodePathParam) # {} =>
                  TakenChild(n, segment) \notin
                      {nodes[n].children[i] : i \in ChildrenOfType(n, nodeAny)}

\* the non-empty tokens of a path between its slashes, in order
NonEmptyTokens(path) == SelectSeq(Split(path, "/"), LAMBDA token : Len(token) > 0)

\* C14: for every path a route was registered with, segmentPath returns the
\* path's non-empty '/'-separated tokens in order: nothing for an empty or
\* all-slash path, and no empty token for a doubled slash.
C14_SegmentPathDropsEmptyTokens ==
    \A rt \in RouteIds :
        segmentPath(routes[rt].Path) = NonEmptyTokens(routes[rt].Path)

\* C15: a call that consumed every request segment answers 404 when the
\* landing node's method map is empty or unset, 405 when the map is not empty
\* and lacks the request method, and otherwise selects the route the map binds
\* to the request method (and then answers 200, or 400 when binding failed);
\* nothing else.
C15_LandingOutcomes ==
    \A c \in CallIds :
        LET call == inflight[c]
            map == nodes[call.current].routes
        IN  (call.pc \in {"bind", "handler", "done"} /\ Len(call.segments) = 0) =>
                IF DOMAIN map = {}
                THEN call.pc = "done" /\ call.status = StatusNotFound /\ call.route = nil
                ELSE IF call.method \notin DOMAIN map
                THEN /\ call.pc = "done"
                     /\ call.status = StatusMethodNotAllowed
                     /\ call.route = nil
                ELSE /\ call.route = map[call.method]
                     /\ call.pc = "done" => call.status \in {StatusOK, StatusBadRequest}

\* a request landed on a node that only leads to routes and was answered 404
C15_Witness ==
    \E c \in CallIds :
        /\ inflight[c].pc = "done"
        /\ inflight[c].status = StatusNotFound
        /\ Len(inflight[c].segments) = 0
        /\ Len(nodes[inflight[c].current].children) > 0
        /\ nodes[inflight[c].current].routesNil

\* C16: every call invokes populateInputSchema at most once, only with a
\* route selected, and the handler only after it and at most once; when
\* populateInputSchema fails the answer is 400 and the handler is not invoked;
\* a call answered 404 or 405 invoked neither.
C16_BindBeforeHandler ==
    \A c \in CallIds :
        LET call == inflight[c]
        IN  /\ call.log \in {<<>>, <<CallPopulateInputSchema>>,
                             <<CallPopulateInputSchema, CallHandler>>}
            /\ call.log # <<>> => call.route # nil
            /\ call.bindErr =>
                  /\ call.pc = "done"
                  /\ call.status = StatusBadRequest
                  /\ call.log = <<CallPopulateInputSchema>>
            /\ (call.pc = "done" /\ call.status = StatusBadRequest) => call.bindErr
            /\ (call.pc = "done"
                   /\ call.status \in {StatusNotFound, StatusMethodNotAllowed}) =>
                  call.log = <<>>

\* populateInputSchema failed for a selected route and the call answered 400
C16_Witness ==
    \E c \in CallIds :
        /\ inflight[c].pc = "done"
        /\ inflight[c].bindErr
        /\ inflight[c].route # nil
        /\ inflight[c].status = StatusBadRequest

\* what a call answered: the status, the route it selected and, with a route,
\* the parameters it captured
Outcome(call) ==
    [status |-> call.status, route |-> call.route,
     params |-> IF call.route = nil THEN <<>> ELSE call.params]

\* what ServeHTTP answers to the call's request when it runs alone
Alone(call) ==
    LET answer == RouterServeHTTP(Current, call.r, call.method, call.path, call.bindErr)
    IN  [status |-> answer.status, route |-> answer.route, params |-> answer.params]

\* C17: no step of any ServeHTTP call, however the calls interleave, writes a
\* node, a route or a router, and every call that is over answered what
\* ServeHTTP answers to its request alone: the same status, route and
\* parameters.
C17_ConcurrentServe ==
    [][inflight' # inflight =>
          /\ nodes' = nodes /\ routes' = routes /\ routers' = routers
          /\ \A c \in CallIds :
                inflight'[c].pc = "done" => Outcome(inflight'[c]) = Alone(inflight'[c])]_vars

\* a call captured a parameter and selected a route while another call was
\* in its walk with a parameter captured
C17_Witness ==
    \E c, d \in CallIds :
        /\ c # d
        /\ inflight[c].pc = "done" /\ inflight[c].route # nil /\ Len(inflight[c].params) > 0
        /\ inflight[d].pc = "walk" /\ Len(inflight[d].params) > 0

\* what a call selected: the route and its parameters, or the miss
Selection(call) ==
    [route |-> call.route,
     params |-> IF call.route = nil THEN <<>> ELSE call.params,
     miss |-> IF call.status \in {StatusNotFound, StatusMethodNotAllowed}
              THEN call.status ELSE 0]

\* C18: two calls with the same method and path on the same router, on a tree
\* no configuration call changed in between, selected the same route with the
\* same parameters in the same order, or both answered 404, or both 405.
C18_ServeIdempotent ==
    \A c, d \in CallIds :
        ( /\ inflight[c].pc = "done" /\ inflight[d].pc = "done"
          /\ inflight[c].r = inflight[d].r
          /\ inflight[c].method = inflight[d].method
          /\ inflight[c].path = inflight[d].path )
        => Selection(inflight[c]) = Selection(inflight[d])

\* two calls with the same request are over, each with a route and a
\* captured parameter
C18_Witness ==
    \E c, d \in CallIds :
        /\ c # d
        /\ inflight[c].pc = "done" /\ inflight[d].pc = "done"
        /\ inflight[c].path = inflight[d].path
        /\ inflight[c].route # nil /\ inflight[d].route # nil
        /\ Len(inflight[c].params) > 0

\* C19: a route's cached full path, once computed, is the concatenation of the
\* prefixes of its router's ancestors, outermost first, of its router's own
\* prefix and of its path, along the parent chain as it is now -- whatever
\* registrations, IncludeRouter calls and FullPath calls were made and in
\* whatever order.  The concatenation is the one generateCompletePath makes
\* of the chain; a parent chain that never ends has none and is left out
C19_FullPathMatchesParentChain ==
    panicked = NoPanic =>
        \A rt \in RouteIds :
            (Len(routes[rt].fullPath) # 0 /\ climbEnds(Current, routes[rt].Router, Len(routers))) =>
                routes[rt].fullPath = generateCompletePath(Current, rt)

\* C20: once patchAllRoutes and GeneratePathsTags have run, as they do before
\* the first request, every route AllRoutes returns for the root router, at
\* any depth of Routers, has its Router back-reference set, its full path
\* computed and its input schema derived (patchRoutes went over it), and is
\* an operation of the generated paths.  The runs of patchAllRoutes that end
\* are the ones looked at
C20_AllRoutesPatchedAndDocumented ==
    panicked = NoPanic =>
        LET after == patchAllRoutes(Current, {})
            paths == GeneratePathsTags(after).paths
        IN  after.panic = NoPanic =>
            \A rt \in Range(AllRoutes(after, RootRouter)) :
                /\ after.routes[rt].patched
                /\ after.routes[rt].Router # nil
                /\ \E path \in DOMAIN paths : \E method \in DOMAIN paths[path] :
                      paths[path][method] = rt

\* C21: an application made by App/DefaultApp with any name, the empty name
\* included, has a usable root node: on the fresh application registering
\* GET /test succeeds and ServeHTTP(GET, /test) then selects that route
C21_AnyNameUsableRoot ==
    (panicked = NoPanic /\ Len(routes) = 0) =>
        LET after == registerRoute(Current, RootRouter, MethodGet, PathTest)
        IN  /\ after.panic = NoPanic
            /\ ServePanic(after, RootRouter) = NoPanic
            /\ Selected(after, RootRouter, MethodGet, PathTest) = Len(after.routes)
            /\ Len(after.routes) = 1

\* the routers whose Routes list holds route rt
Owners(rt) == {r \in RouterIds : \E i \in 1..Len(routers[r].Routes) : routers[r].Routes[i] = rt}

\* C23: a route registered with WebSocket(path) is reachable: ServeHTTP(GET,
\* path) on its router selects it, with the WebSocket flag set, and does not
\* answer 404
C23_WebSocketReachable ==
    panicked = NoPanic =>
        \A rt \in RouteIds : routes[rt].WebSocket =>
            \A r \in Owners(rt) :
                LET answer == RouterServeHTTP(Current, r, MethodGet, routes[rt].Path, FALSE)
                IN  /\ answer.status # StatusNotFound
                    /\ answer.route # nil
                    /\ routes[answer.route].WebSocket
                    /\ routes[answer.route].Path = routes[rt].Path

\* the middlewares of router r's ancestors, outermost ancestor first, then
\* r's own, each router's in the order Use added them
RECURSIVE MiddlewareChain(_, _)
MiddlewareChain(S, r) ==
    IF r = nil THEN <<>>
    ELSE MiddlewareChain(S, S.routers[r].parent) \o S.routers[r].Middlewares

\* C22: the middlewares added as m1 .. mn along a route's router chain
\* (ancestors before descendants, each router's in Use order) run in that
\* order for a request, m1 first and mn last, and then the handler: once
\* patchAllRoutes has attached them, the handler of every route of the
\* application enters them in the order of the chain
C22_MiddlewareOrder ==
    (panicked = NoPanic /\ Unwrapped) =>
        LET after == patchAllRoutes(Current, {})
            all == AllRoutes(after, RootRouter)
        IN  \A i \in 1..Len(all) :
                after.routes[all[i]].Handler = MiddlewareChain(after, after.routes[all[i]].Router)

\* the segment a node's prefix was made from: the prefix without its slash
SegmentOf(prefix) == IF Len(prefix) > 0 /\ prefix[1] = "/" THEN Tail(prefix) ELSE prefix

\* C24: every child node that registration creates carries the kind the
\* tokenizer gives its segment, the kind registration searches with, so that
\* walking a registered path again finds every node and creates none
C24_ChildKindMatchesSearch ==
    panicked = NoPanic =>
        /\ \A n \in NodeIds \ RootNodes :
               nodes[n].type_ = determineNodeType(SegmentOf(nodes[n].prefix))
        /\ \A rt \in RouteIds, method \in Methods :
               LET after == registerRoute(Current, routes[rt].Router, method, routes[rt].Path)
               IN  /\ after.panic \in {NoPanic, PanicMethodConflict}
                   /\ Len(after.nodes) = Len(nodes)

\* the nodes from n up to root spell the segments, last segment at n: a static
\* node by its exact segment, a parameter or wildcard node by any segment
RECURSIVE SegmentsMatch(_, _, _, _)
SegmentsMatch(S, root, n, segments) ==
    IF Len(segments) = 0 THEN n = root
    ELSE /\ n # nil
         /\ n # root
         /\ \/ S.nodes[n].type_ # nodePrefix
            \/ SegmentOf(S.nodes[n].prefix) = segments[Len(segments)]
         /\ SegmentsMatch(S, root, S.nodes[n].parent, SubSeq(segments, 1, Len(segments) - 1))

\* C25: ServeHTTP never selects a route for a request path that its path
\* does not match: a static node matches only its exact segment, so the node a
\* request is dispatched at spells the request's segments from the root
C25_NoRouteForNonMatchingPath ==
    panicked = NoPanic =>
        \A r \in RouterIds, method \in RequestMethods, path \in AllRequestPaths :
            (Unmounted(r) /\ Selected(Current, r, method, path) # nil) =>
                SegmentsMatch(Current, routers[r].rootNode,
                              Landing(Current, r, path).node, segmentPath(path))

\* C26: Mount("/", subRouter) on a different router that is not attached yet
\* succeeds: the mount point is the receiver's root node, which takes over
\* the sub-router's root children and method map
C26_MountAtRoot ==
    panicked = NoPanic =>
        \A r \in RouterIds, subRouter \in RouterIds :
            (r # subRouter /\ routers[subRouter].parent = nil) =>
                LET after == RouterMount(Current, r, PathSlash, subRouter)
                    root == routers[r].rootNode
                    subRoot == nodes[routers[subRouter].rootNode]
                IN  /\ after.panic = NoPanic
                    /\ after.routers[subRouter].parent = r
                    /\ after.nodes[root].children = nodes[root].children \o subRoot.children
                    /\ \A m \in DOMAIN subRoot.routes :
                           /\ m \in DOMAIN after.nodes[root].routes
                           /\ after.nodes[root].routes[m] = subRoot.routes[m]

\* the segments spelled by the nodes below root down to node n
RECURSIVE NodeChain(_, _)
NodeChain(n, root) ==
    IF n = nil \/ n = root THEN <<>>
    ELSE NodeChain(nodes[n].parent, root) \o <<SegmentOf(nodes[n].prefix)>>

\* C27: every Route held in a node's method map is held under the key equal
\* to its Protocol, at the node whose chain of segments from the root node of
\* its router is the tokenization of its Path; paths without a leading slash
\* registered again with another method included
C27_RouteAtNodeOfItsPath ==
    panicked = NoPanic =>
        \A n \in NodeIds : \A m \in DOMAIN nodes[n].routes :
            LET rt == nodes[n].routes[m]
                r == routes[rt].Router
            IN  /\ routes[rt].Protocol = m
                /\ Unmounted(r) =>
                       NodeChain(n, routers[r].rootNode) = segmentPath(routes[rt].Path)

\* following parent from router r reaches nil within k steps
RECURSIVE ReachesNoParent(_, _)
ReachesNoParent(r, k) ==
    IF r = nil THEN TRUE
    ELSE IF k = 0 THEN FALSE
    ELSE ReachesNoParent(routers[r].parent, k - 1)

\* C28: after any sequence of successful Mount calls the parent relation of
\* the routers is acyclic: climbing from any router ends at a router without
\* parent, so that AllRoutes and the generation of full paths terminate
C28_ParentRelationAcyclic ==
    panicked = NoPanic => \A r \in RouterIds : ReachesNoParent(r, Len(routers))

\* the call left every node, route and router as the program holds them
Untouched(after) ==
    /\ after.nodes = nodes
    /\ after.routes = routes
    /\ after.routers = routers

\* C29: a registration or a Mount that panics leaves the configuration as it
\* was before the call: no node created or reparented, no method map or
\* allMethods changed, no Routes or Routers list changed, and the
\* sub-router's parent and Path unchanged
C29_PanicLeavesStateUnchanged ==
    panicked = NoPanic =>
        /\ \A r \in RouterIds, method \in Methods, path \in AllRegisterPaths \cup {PathBareB \o PathA} :
               LET after == registerRoute(Current, r, method, path)
               IN  after.panic # NoPanic => Untouched(after)
        /\ \A r \in RouterIds, mountPath \in MountPaths, subRouter \in RouterIds :
               LET after == RouterMount(Current, r, mountPath, subRouter)
               IN  after.panic # NoPanic => Untouched(after)

\* the requests router r resolves to a route in the configuration S
Resolved(S, r) ==
    {q \in Methods \X ProbePaths : Selected(S, r, q[1], q[2]) # nil}

\* C30: mounting and registering commute: the requests router 1 resolves are
\* the same whether a route is registered on router 2 before or after
\* Mount(prefix, 2) on router 1, also when the first segment of the route was
\* not under router 2's root node before
C30_MountRegisterCommute ==
    (panicked = NoPanic /\ routers[2].parent = nil) =>
        \A method \in Methods, path \in RegisterPaths, prefix \in MountPaths :
            LET registered == registerRoute(Current, 2, method, path)
                registeredMounted == RouterMount(registered, 1, prefix, 2)
                mounted == RouterMount(Current, 1, prefix, 2)
                mountedRegistered == registerRoute(mounted, 2, method, path)
            IN  (/\ registered.panic = NoPanic
                 /\ registeredMounted.panic = NoPanic
                 /\ mounted.panic = NoPanic
                 /\ mountedRegistered.panic = NoPanic) =>
                    Resolved(registeredMounted, 1) = Resolved(mountedRegistered, 1)
====
